---------------------------- MODULE Spec2Model ----------------------------
(***************************************************************************)
(* The SEP-41 token contract of contracts/sep41/src/lib.rs as a state      *)
(* machine.  One step is one invocation of the contract (or one ledger     *)
(* close).  The host runs an invocation to completion and keeps its writes *)
(* only if it returns normally; a panic or a failed require_auth rolls     *)
(* every write of the invocation back.                                     *)
(***************************************************************************)
EXTENDS Integers, FiniteSets, Sequences, TLC

(* ------------------------------ bounds --------------------------------- *)

\* The largest value of the amount type.  The contract uses i128; the model
\* keeps the two's complement shape on a narrow type: I128_MIN..I128_MAX.
I128_MAX == 1

\* The ledger sequence numbers (u32) the model walks through: 0..MaxSeq.
MaxSeq == 1

I128_MIN == -I128_MAX - 1

I128 == I128_MIN..I128_MAX

Accounts == {"a1", "a2", "a3"}

\* The sets of addresses whose authorization an invocation can carry: here
\* every invocation is authorized by exactly one address.
Auths == {{a} : a \in Accounts}

\* The addresses tokens are sent to.  The third account holds no tokens: it
\* is the bystander, as a signer, as the source of a transfer and as an admin.
Recipients == {"a1", "a2"}

\* The amounts given to the entry points: one negative, zero, positive ones.
Amounts == -1..I128_MAX

\* The expiration ledgers given to approve: the first ledger and the last.
Expirations == {0, MaxSeq}

\* The addresses given as admin to __constructor and set_admin.
Admins == {"a1", "a3"}

\* The (from, spender) pairs the allowance entry points are invoked with.
AllowancePairs == {<<"a1", "a2">>}

\* The metadata the constructor is invoked with.
Metas == {[decimal |-> 7, name |-> "X", symbol |-> "X"],
          [decimal |-> 0, name |-> "Y", symbol |-> "Y"]}

\* Option<T>: None is the empty set and Some(v) the set of v alone.
None == {}

Some(v) == {v}

unwrap(o) == CHOOSE v \in o : TRUE

\* No address: what reading DataKey::Admin gives before the constructor has run.
NoAdmin == "None"

(* ------------------------------ outcomes ------------------------------- *)

Ok == "Ok"

\* enum ContractError: declared by the contract, raised nowhere in it.
ContractError == {"InternalError", "AlreadyInitializedError", "UnauthorizedError",
                  "NegativeAmountError", "BalanceError", "OverflowError"}

\* What the host answers when require_auth finds no authorization of the
\* address: the host's own authorization error, a structured error kind (the
\* "UnauthorizedError" the authorization gate yields), unlike a panic.
HostAuthError == "Error(Auth, InvalidAction)"

PanicAlreadyInitialized == "panic: already initialized"

PanicNegativeAmount == "panic: negative amount"

PanicInsufficientAllowance == "panic: insufficient allowance"

PanicInsufficientBalance == "panic: insufficient balance"

PanicUnwrapNone == "panic: called Option::unwrap() on a None value"

PanicAddOverflow == "panic: attempt to add with overflow"

PanicSubOverflow == "panic: attempt to subtract with overflow"

(* ------------------------------- state --------------------------------- *)

VARIABLES
    Balance,          \* persistent DataKey::Balance(addr) -> i128 (an absent key reads 0)
    Allowance,        \* persistent DataKey::Allowance(from, spender) -> AllowanceValue or None
    Admin,            \* instance DataKey::Admin
    METADATA,         \* instance "METADATA" -> TokenMetadata
    sequence,         \* e.ledger().sequence()
    overflow_checks,  \* whether the build panics on integer overflow (else it wraps)
    last,             \* the invocation just run: its entry point and its outcome
    audit,            \* whether the run keeps the account of the allowances spent
    granted,          \* per pair: the amount of the last successful approve
    deadline,         \* per pair: the expiration ledger of the last successful approve
    spent             \* per pair: what the spender has taken from the owner's balance
                      \* since the last successful approve

vars == <<Balance, Allowance, Admin, METADATA, sequence, overflow_checks, last,
          audit, granted, deadline, spent>>

account == <<audit, granted, deadline, spent>>

storage == <<Balance, Allowance, Admin, METADATA>>

Pairs == Accounts \X Accounts

AllowanceValue == [amount : I128, expiration_ledger : 0..MaxSeq]

\* The environment an invocation runs in: the storage it reads and writes,
\* the ledger, whether it has aborted, the events it has published, and the
\* writes and publications it has made on the host so far, in their order.
Env == [Balance |-> Balance, Allowance |-> Allowance, Admin |-> Admin,
        METADATA |-> METADATA, sequence |-> sequence,
        overflow_checks |-> overflow_checks, err |-> Ok, ret |-> None,
        events |-> <<>>, trace |-> <<>>]

Failed(e) == e.err # Ok

\* panic!(msg), and every other abort: the first abort ends the invocation.
panic(e, msg) == IF Failed(e) THEN e ELSE [e EXCEPT !.err = msg]

\* TokenUtils::new(&e).events().<kind>(...): the event is published.
publish(e, event) ==
    IF Failed(e) THEN e
    ELSE [e EXCEPT !.events = Append(@, event), !.trace = Append(@, "publish")]

(* ----------------------------- arithmetic ------------------------------ *)

\* Two's complement wrap-around into I128_MIN..I128_MAX.
Wrap(x) == ((x - I128_MIN) % (I128_MAX - I128_MIN + 1)) + I128_MIN

(* ------------------------------ helpers -------------------------------- *)

\* addr.require_auth()
require_auth(e, auths, addr) ==
    IF Failed(e) THEN e
    ELSE IF addr \in auths THEN e ELSE panic(e, HostAuthError)

check_nonnegative_amount(e, amount) ==
    IF Failed(e) THEN e
    ELSE IF amount < 0 THEN panic(e, PanicNegativeAmount) ELSE e

\* write_allowance that adds the amount to the one stored.
write_allowance_adding(e, from, spender, amount, expiration_ledger) ==
    IF Failed(e) THEN e
    ELSE LET stored == e.Allowance[<<from, spender>>]
             old == IF stored = None THEN 0 ELSE unwrap(stored).amount
         IN  [e EXCEPT !.Allowance[<<from, spender>>] =
                  Some([amount |-> old + amount,
                        expiration_ledger |-> expiration_ledger])]

write_allowance(e, from, spender, amount, expiration_ledger) ==
    IF Failed(e) THEN e
    ELSE [e EXCEPT !.Allowance[<<from, spender>>] =
                       Some([amount |-> amount, expiration_ledger |-> expiration_ledger]),
                   !.trace = Append(@, "set")]

\* read_allowance with the comparison off by one: expired from the
\* expiration ledger itself on.
read_allowance_expired_at(e, from, spender) ==
    LET stored == e.Allowance[<<from, spender>>]
        allowance == unwrap(stored)
    IN
    IF stored # None
    THEN IF allowance.expiration_ledger <= e.sequence
         THEN [amount |-> 0, expiration_ledger |-> allowance.expiration_ledger]
         ELSE allowance
    ELSE [amount |-> 0, expiration_ledger |-> 0]

\* read_allowance with the comparison reversed.
read_allowance_reversed(e, from, spender) ==
    LET stored == e.Allowance[<<from, spender>>]
        allowance == unwrap(stored)
    IN
    IF stored # None
    THEN IF allowance.expiration_ledger > e.sequence
         THEN [amount |-> 0, expiration_ledger |-> allowance.expiration_ledger]
         ELSE allowance
    ELSE [amount |-> 0, expiration_ledger |-> 0]

read_allowance(e, from, spender) ==
    LET stored == e.Allowance[<<from, spender>>]
        allowance == unwrap(stored)
    IN
    IF stored # None
    THEN IF allowance.expiration_ledger < e.sequence
         THEN [amount |-> 0, expiration_ledger |-> allowance.expiration_ledger]
         ELSE allowance
    ELSE [amount |-> 0, expiration_ledger |-> 0]

\* spend_allowance that checks the allowance and forgets to write it back.
spend_allowance_unwritten(e, from, spender, amount) ==
    IF Failed(e) THEN e
    ELSE IF read_allowance(e, from, spender).amount < amount
         THEN panic(e, PanicInsufficientAllowance)
         ELSE e

spend_allowance(e, from, spender, amount) ==
    IF Failed(e) THEN e
    ELSE LET allowance == read_allowance(e, from, spender)
             rest == allowance.amount - amount
         IN  IF allowance.amount < amount
             THEN panic(e, PanicInsufficientAllowance)
             ELSE IF rest \in I128
             THEN write_allowance(e, from, spender, rest, allowance.expiration_ledger)
             ELSE IF e.overflow_checks
             THEN panic(e, PanicSubOverflow)
             ELSE write_allowance(e, from, spender, Wrap(rest),
                                  allowance.expiration_ledger)

read_balance(e, addr) == e.Balance[addr]

\* receive_balance that stores the amount received instead of the new balance.
receive_balance_overwriting(e, addr, amount) ==
    IF Failed(e) THEN e ELSE [e EXCEPT !.Balance[addr] = amount]

receive_balance(e, addr, amount) ==
    IF Failed(e) THEN e
    ELSE LET balance == read_balance(e, addr)
             new == balance + amount
         IN  IF new \in I128
             THEN [e EXCEPT !.Balance[addr] = new, !.trace = Append(@, "set")]
             ELSE IF e.overflow_checks
             THEN panic(e, PanicAddOverflow)
             ELSE [e EXCEPT !.Balance[addr] = Wrap(new), !.trace = Append(@, "set")]

\* spend_balance without the check of the balance.
spend_balance_unchecked(e, addr, amount) ==
    IF Failed(e) THEN e
    ELSE LET new == read_balance(e, addr) - amount
         IN  [e EXCEPT !.Balance[addr] = IF new \in I128 THEN new ELSE Wrap(new)]

spend_balance(e, addr, amount) ==
    IF Failed(e) THEN e
    ELSE LET balance == read_balance(e, addr)
             new == balance - amount
         IN  IF balance < amount
             THEN panic(e, PanicInsufficientBalance)
             ELSE IF new \in I128
             THEN [e EXCEPT !.Balance[addr] = new, !.trace = Append(@, "set")]
             ELSE IF e.overflow_checks
             THEN panic(e, PanicSubOverflow)
             ELSE [e EXCEPT !.Balance[addr] = Wrap(new), !.trace = Append(@, "set")]

\* e.storage().instance().get(&DataKey::Admin).unwrap()
get_admin(e) == IF Failed(e) THEN e
                ELSE IF e.Admin = NoAdmin THEN panic(e, PanicUnwrapNone) ELSE e

\* e.storage().instance().get(&symbol_short!("METADATA")).unwrap()
get_metadata(e) == IF Failed(e) THEN e
                   ELSE IF e.METADATA = None THEN panic(e, PanicUnwrapNone) ELSE e

\* The value an entry point returns.
return(e, v) == IF Failed(e) THEN e ELSE [e EXCEPT !.ret = Some(v)]

(* ------------------ the entry points, run on an environment ------------ *)

\* __constructor without the check that the contract is initialized.
run_constructor_unguarded(e, admin, meta) ==
    [e EXCEPT !.Admin = admin, !.METADATA = Some(meta)]

run_constructor(e, admin, meta) ==
    IF e.Admin # NoAdmin
    THEN panic(e, PanicAlreadyInitialized)
    ELSE [e EXCEPT !.Admin = admin, !.METADATA = Some(meta),
                   !.trace = @ \o <<"set", "set">>]

\* allowance that stores what it read: the expiry applied on read.
run_allowance_storing(e, from, spender) ==
    LET a == read_allowance(e, from, spender)
    IN  return(write_allowance(e, from, spender, a.amount, a.expiration_ledger),
               a.amount)

run_allowance(e, from, spender) ==
    return(e, read_allowance(e, from, spender).amount)

run_approve(e, auths, from, spender, amount, expiration_ledger) ==
    LET e1 == require_auth(e, auths, from)
        e2 == check_nonnegative_amount(e1, amount)
        e3 == write_allowance(e2, from, spender, amount, expiration_ledger)
    IN  publish(e3, <<"approve", from, spender, amount, expiration_ledger>>)

run_balance(e, id) == return(e, read_balance(e, id))

\* transfer that credits the balance `to` had before the debit.
run_transfer_reading_first(e, auths, from, to, amount) ==
    LET e1 == require_auth(e, auths, from)
        e2 == check_nonnegative_amount(e1, amount)
        e3 == spend_balance(e2, from, amount)
        e4 == IF Failed(e3) THEN e3
              ELSE [e3 EXCEPT !.Balance[to] = read_balance(e, to) + amount,
                              !.trace = Append(@, "set")]
    IN  publish(e4, <<"transfer", from, to, amount>>)

run_transfer(e, auths, from, to, amount) ==
    LET e1 == require_auth(e, auths, from)
        e2 == check_nonnegative_amount(e1, amount)
        e3 == spend_balance(e2, from, amount)
        e4 == receive_balance(e3, to, amount)
    IN  publish(e4, <<"transfer", from, to, amount>>)

\* transfer_from that asks for the authorization of the owner.
run_transfer_from_auth_of_owner(e, auths, spender, from, to, amount) ==
    LET e1 == require_auth(e, auths, from)
        e2 == check_nonnegative_amount(e1, amount)
        e3 == spend_allowance(e2, from, spender, amount)
        e4 == spend_balance(e3, from, amount)
    IN  receive_balance(e4, to, amount)

run_transfer_from(e, auths, spender, from, to, amount) ==
    LET e1 == require_auth(e, auths, spender)
        e2 == check_nonnegative_amount(e1, amount)
        e3 == spend_allowance(e2, from, spender, amount)
        e4 == spend_balance(e3, from, amount)
        e5 == receive_balance(e4, to, amount)
    IN  publish(e5, <<"transfer", from, to, amount>>)

run_burn(e, auths, from, amount) ==
    LET e1 == require_auth(e, auths, from)
        e2 == check_nonnegative_amount(e1, amount)
        e3 == spend_balance(e2, from, amount)
    IN  publish(e3, <<"burn", from, amount>>)

run_burn_from(e, auths, spender, from, amount) ==
    LET e1 == require_auth(e, auths, spender)
        e2 == check_nonnegative_amount(e1, amount)
        e3 == spend_allowance(e2, from, spender, amount)
        e4 == spend_balance(e3, from, amount)
    IN  publish(e4, <<"burn", from, amount>>)

run_decimals(e) == LET e1 == get_metadata(e) IN
                   IF Failed(e1) THEN e1 ELSE return(e1, unwrap(e1.METADATA).decimal)

run_name(e) == LET e1 == get_metadata(e) IN
               IF Failed(e1) THEN e1 ELSE return(e1, unwrap(e1.METADATA).name)

run_symbol(e) == LET e1 == get_metadata(e) IN
                 IF Failed(e1) THEN e1 ELSE return(e1, unwrap(e1.METADATA).symbol)

\* mint that asks for nobody's authorization.
run_mint_open(e, auths, to, amount) ==
    LET e0 == get_admin(e)
        e2 == check_nonnegative_amount(e0, amount)
    IN  receive_balance(e2, to, amount)

run_mint(e, auths, to, amount) ==
    LET e0 == get_admin(e)
        e1 == require_auth(e0, auths, e.Admin)
        e2 == check_nonnegative_amount(e1, amount)
        e3 == receive_balance(e2, to, amount)
    IN  publish(e3, <<"mint", e.Admin, to, amount>>)

\* set_admin that does not store the new admin.
run_set_admin_unwritten(e, auths, new_admin) ==
    LET e0 == get_admin(e)
    IN  require_auth(e0, auths, e.Admin)

\* set_admin that reads the admin for the event after it has stored the new one.
run_set_admin_read_late(e, auths, new_admin) ==
    LET e0 == get_admin(e)
        e1 == require_auth(e0, auths, e.Admin)
        e2 == IF Failed(e1) THEN e1
              ELSE [e1 EXCEPT !.Admin = new_admin, !.trace = Append(@, "set")]
    IN  publish(e2, <<"set_admin", e2.Admin, new_admin>>)

run_set_admin(e, auths, new_admin) ==
    LET e0 == get_admin(e)
        e1 == require_auth(e0, auths, e.Admin)
        e2 == IF Failed(e1) THEN e1
              ELSE [e1 EXCEPT !.Admin = new_admin, !.trace = Append(@, "set")]
    IN  publish(e2, <<"set_admin", e.Admin, new_admin>>)

run_admin(e) == LET e1 == get_admin(e) IN return(e1, e1.Admin)

(* ------------------------------ actions -------------------------------- *)

\* A host that keeps the writes of an invocation that aborted.
Commit_keeping_writes(e0, e) == e

\* The host ends an invocation that started in environment e0 and ran to e:
\* the writes are kept if it returned, and rolled back if it aborted.
Commit(e0, e) == IF Failed(e) THEN [e0 EXCEPT !.err = e.err] ELSE e

\* What an invocation leaves is made the contract's state.
Store(op, r) ==
    /\ last' = [op |-> op, result |-> r.err]
    /\ Balance' = r.Balance
    /\ Allowance' = r.Allowance
    /\ Admin' = r.Admin
    /\ METADATA' = r.METADATA
    /\ UNCHANGED <<sequence, overflow_checks>>

\* An invocation that neither grants nor spends an allowance.
Invoke(op, r) == Store(op, r) /\ UNCHANGED account

\* The account of an approve(from, spender, amount, expiration_ledger) that
\* left r: if it succeeded, the pair is granted the amount until the
\* expiration and has spent nothing of it.
Granting(p, amount, expiration_ledger, r) ==
    IF audit /\ r.err = Ok
    THEN /\ granted' = [granted EXCEPT ![p] = amount]
         /\ deadline' = [deadline EXCEPT ![p] = expiration_ledger]
         /\ spent' = [spent EXCEPT ![p] = 0]
         /\ UNCHANGED audit
    ELSE UNCHANGED account

\* The account of a transfer_from or burn_from by spender p[2] on owner p[1]
\* that left r: if it succeeded, what it took from the owner's balance is
\* spent.
Spending(p, r) ==
    IF audit /\ r.err = Ok
    THEN /\ spent' = [spent EXCEPT ![p] = @ + (Balance[p[1]] - r.Balance[p[1]])]
         /\ UNCHANGED <<audit, granted, deadline>>
    ELSE UNCHANGED account

\* call_f: what an invocation of entry point f in the current state leaves.
call_constructor(admin, meta) == Commit(Env, run_constructor(Env, admin, meta))

call_allowance(from, spender) == Commit(Env, run_allowance(Env, from, spender))

call_approve(auths, from, spender, amount, expiration_ledger) ==
    Commit(Env, run_approve(Env, auths, from, spender, amount, expiration_ledger))

call_balance(id) == Commit(Env, run_balance(Env, id))

call_transfer(auths, from, to, amount) ==
    Commit(Env, run_transfer(Env, auths, from, to, amount))

call_transfer_from(auths, spender, from, to, amount) ==
    Commit(Env, run_transfer_from(Env, auths, spender, from, to, amount))

call_burn(auths, from, amount) == Commit(Env, run_burn(Env, auths, from, amount))

call_burn_from(auths, spender, from, amount) ==
    Commit(Env, run_burn_from(Env, auths, spender, from, amount))

call_decimals == Commit(Env, run_decimals(Env))

call_name == Commit(Env, run_name(Env))

call_symbol == Commit(Env, run_symbol(Env))

call_mint(auths, to, amount) == Commit(Env, run_mint(Env, auths, to, amount))

call_set_admin(auths, new_admin) == Commit(Env, run_set_admin(Env, auths, new_admin))

call_admin == Commit(Env, run_admin(Env))

constructor(admin, meta) == Invoke("__constructor", call_constructor(admin, meta))

allowance(from, spender) == Invoke("allowance", call_allowance(from, spender))

approve(auths, from, spender, amount, expiration_ledger) ==
    /\ Store("approve", call_approve(auths, from, spender, amount, expiration_ledger))
    /\ Granting(<<from, spender>>, amount, expiration_ledger,
                call_approve(auths, from, spender, amount, expiration_ledger))

balance(id) == Invoke("balance", call_balance(id))

transfer(auths, from, to, amount) ==
    Invoke("transfer", call_transfer(auths, from, to, amount))

transfer_from(auths, spender, from, to, amount) ==
    /\ Store("transfer_from", call_transfer_from(auths, spender, from, to, amount))
    /\ Spending(<<from, spender>>, call_transfer_from(auths, spender, from, to, amount))

burn(auths, from, amount) == Invoke("burn", call_burn(auths, from, amount))

burn_from(auths, spender, from, amount) ==
    /\ Store("burn_from", call_burn_from(auths, spender, from, amount))
    /\ Spending(<<from, spender>>, call_burn_from(auths, spender, from, amount))

decimals == Invoke("decimals", call_decimals)

name == Invoke("name", call_name)

symbol == Invoke("symbol", call_symbol)

mint(auths, to, amount) == Invoke("mint", call_mint(auths, to, amount))

set_admin(auths, new_admin) == Invoke("set_admin", call_set_admin(auths, new_admin))

admin == Invoke("admin", call_admin)

\* The host closes a ledger: the sequence number grows by one.
close_ledger ==
    /\ sequence < MaxSeq
    /\ sequence' = sequence + 1
    /\ last' = [op |-> "close_ledger", result |-> Ok]
    /\ UNCHANGED <<storage, overflow_checks, account>>

(* --------------------------- specification ----------------------------- *)

\* The contract right after its deployment, which runs __constructor once.
Deployed ==
    /\ Balance = [a \in Accounts |-> 0]
    /\ Allowance = [p \in Pairs |-> None]
    /\ Admin = "a1"
    /\ METADATA = Some([decimal |-> 7, name |-> "X", symbol |-> "X"])
    /\ sequence = 0
    /\ overflow_checks \in BOOLEAN
    /\ last = [op |-> "__constructor", result |-> Ok]
    /\ granted = [p \in AllowancePairs |-> 0]
    /\ deadline = [p \in AllowancePairs |-> 0]
    /\ spent = [p \in AllowancePairs |-> 0]

Init == Deployed /\ audit = FALSE

\* The same, with the account of the allowances kept.
InitAudit == Deployed /\ audit = TRUE

Next ==
    \/ \E a \in Admins, m \in Metas : constructor(a, m)
    \/ \E p \in AllowancePairs : allowance(p[1], p[2])
    \/ \E auths \in Auths, p \in AllowancePairs, amount \in Amounts, x \in Expirations :
           approve(auths, p[1], p[2], amount, x)
    \/ \E id \in Accounts : balance(id)
    \/ \E auths \in Auths, from \in Accounts, to \in Recipients, amount \in Amounts :
           transfer(auths, from, to, amount)
    \/ \E auths \in Auths, p \in AllowancePairs, to \in Recipients, amount \in Amounts :
           transfer_from(auths, p[2], p[1], to, amount)
    \/ \E auths \in Auths, from \in Accounts, amount \in Amounts : burn(auths, from, amount)
    \/ \E auths \in Auths, p \in AllowancePairs, amount \in Amounts :
           burn_from(auths, p[2], p[1], amount)
    \/ decimals
    \/ name
    \/ symbol
    \/ \E auths \in Auths, to \in Recipients, amount \in Amounts : mint(auths, to, amount)
    \/ \E auths \in Auths, new_admin \in Admins : set_admin(auths, new_admin)
    \/ admin
    \/ close_ledger

Spec == Init /\ [][Next]_vars

SpecAudit == InitAudit /\ [][Next]_vars


(* ------------------- what the claims are stated with ------------------- *)

RECURSIVE SumOver(_, _)
SumOver(f, S) == IF S = {} THEN 0
                 ELSE LET x == CHOOSE y \in S : TRUE
                      IN  f[x] + SumOver(f, S \ {x})

\* The total supply: stored nowhere, the sum over all balance entries.
Supply(e) == SumOver(e.Balance, Accounts)

\* The environment an invocation leaves is the one it found.
Untouched(r) ==
    /\ r.Balance = Balance
    /\ r.Allowance = Allowance
    /\ r.Admin = Admin
    /\ r.METADATA = METADATA

\* The stored record of a pair, an absent one read as {0, 0}.
StoredAmount(e, p) ==
    IF e.Allowance[p] = None THEN 0 ELSE unwrap(e.Allowance[p]).amount

StoredExpiration(e, p) ==
    IF e.Allowance[p] = None THEN 0 ELSE unwrap(e.Allowance[p]).expiration_ledger

\* The effective allowance of the specification: the stored amount while the
\* sequence has not passed the expiration, else 0.
Effective(p) == IF sequence > StoredExpiration(Env, p) THEN 0 ELSE StoredAmount(Env, p)

TotalSupply == Supply(Env)

Succeeded == last.result = Ok

(* -------------------------------- C1 ----------------------------------- *)

\* What a successful invocation of each entry point does to the supply.
C1_EachCall ==
    /\ \A auths \in Auths, to \in Recipients, amount \in Amounts :
           LET r == call_mint(auths, to, amount) IN
           Supply(r) = IF Failed(r) THEN TotalSupply ELSE TotalSupply + amount
    /\ \A auths \in Auths, from \in Accounts, amount \in Amounts :
           LET r == call_burn(auths, from, amount) IN
           Supply(r) = IF Failed(r) THEN TotalSupply ELSE TotalSupply - amount
    /\ \A auths \in Auths, p \in AllowancePairs, amount \in Amounts :
           LET r == call_burn_from(auths, p[2], p[1], amount) IN
           Supply(r) = IF Failed(r) THEN TotalSupply ELSE TotalSupply - amount
    /\ \A auths \in Auths, from \in Accounts, to \in Recipients, amount \in Amounts :
           Supply(call_transfer(auths, from, to, amount)) = TotalSupply
    /\ \A auths \in Auths, p \in AllowancePairs, to \in Recipients, amount \in Amounts :
           Supply(call_transfer_from(auths, p[2], p[1], to, amount)) = TotalSupply
    /\ \A auths \in Auths, p \in AllowancePairs, amount \in Amounts, x \in Expirations :
           Supply(call_approve(auths, p[1], p[2], amount, x)) = TotalSupply
    /\ \A auths \in Auths, new_admin \in Admins :
           Supply(call_set_admin(auths, new_admin)) = TotalSupply

\* C1: the sum of all balances is raised by exactly amt by a successful
\* mint(to, amt), lowered by exactly amt by a successful burn / burn_from,
\* and left unchanged by every other step: successful transfer and
\* transfer_from, approve, set_admin, the reads and every failed invocation.
C1_SupplyChangesOnlyByMintAndBurn ==
    /\ []C1_EachCall
    /\ [][ TotalSupply' # TotalSupply =>
               (last'.op \in {"mint", "burn", "burn_from"} /\ Succeeded') ]_vars

(* -------------------------------- C2 ----------------------------------- *)

\* C2: in every reachable state every stored balance is >= 0 and every
\* stored allowance amount is >= 0.
C2_NothingNegative ==
    /\ \A a \in Accounts : Balance[a] >= 0
    /\ \A p \in Pairs : StoredAmount(Env, p) >= 0

(* -------------------------------- C3 ----------------------------------- *)

RefusedUntouched(r) == r.err = HostAuthError /\ Untouched(r)

\* C3: transfer, burn and approve invoked without the authorization of
\* `from`, and transfer_from and burn_from invoked without the authorization
\* of `spender`, fail with the authorization error and leave the balances,
\* the allowance records, the admin and the metadata unchanged, whoever else
\* authorized the invocation (`from` itself, for transfer_from / burn_from).
C3_UnauthorizedChangesNothing ==
    /\ \A auths \in Auths, from \in Accounts, to \in Recipients, amount \in Amounts :
           from \notin auths =>
               RefusedUntouched(call_transfer(auths, from, to, amount))
    /\ \A auths \in Auths, from \in Accounts, amount \in Amounts :
           from \notin auths => RefusedUntouched(call_burn(auths, from, amount))
    /\ \A auths \in Auths, p \in AllowancePairs, amount \in Amounts, x \in Expirations :
           p[1] \notin auths =>
               RefusedUntouched(call_approve(auths, p[1], p[2], amount, x))
    /\ \A auths \in Auths, p \in AllowancePairs, to \in Recipients, amount \in Amounts :
           p[2] \notin auths =>
               RefusedUntouched(call_transfer_from(auths, p[2], p[1], to, amount))
    /\ \A auths \in Auths, p \in AllowancePairs, amount \in Amounts :
           p[2] \notin auths =>
               RefusedUntouched(call_burn_from(auths, p[2], p[1], amount))

\* A transfer_from was refused for want of the spender's authorization in a
\* state where the owner has tokens and the spender an unexpired allowance,
\* so that the owner's own authorization is what did not suffice.
C3_Witness ==
    /\ last = [op |-> "transfer_from", result |-> HostAuthError]
    /\ Balance["a1"] > 0
    /\ Effective(<<"a1", "a2">>) > 0
    /\ RefusedUntouched(call_transfer_from({"a1"}, "a2", "a1", "a2", 1))

(* -------------------------------- C4 ----------------------------------- *)

\* The transfer moved amount from `from` to `to` and touched no other balance.
Moved(r, from, to, amount) ==
    /\ r.err = Ok
    /\ r.Balance[from] = Balance[from] - amount
    /\ r.Balance[to] = Balance[to] + amount
    /\ r.Balance[from] + r.Balance[to] = Balance[from] + Balance[to]
    /\ \A a \in Accounts \ {from, to} : r.Balance[a] = Balance[a]

\* C4 as claimed: for any accounts from and to and any amt with
\* 0 <= amt <= balance(from), a transfer authorized by from succeeds, lowers
\* balance(from) by amt, raises balance(to) by amt, keeps their sum and
\* changes no other balance.
C4_AnyTransferMoves ==
    \A auths \in Auths, from \in Accounts, to \in Recipients, amount \in Amounts :
        (from \in auths /\ 0 <= amount /\ amount <= Balance[from]) =>
            Moved(call_transfer(auths, from, to, amount), from, to, amount)

\* C4 as amended: the same for distinct from and to when balance(to) + amt
\* does not exceed the largest amount; a transfer from an account to itself
\* succeeds and changes no balance.
C4_TransferMoves ==
    \A auths \in Auths, from \in Accounts, to \in Recipients, amount \in Amounts :
        (from \in auths /\ 0 <= amount /\ amount <= Balance[from]) =>
            LET r == call_transfer(auths, from, to, amount) IN
            /\ (from # to /\ Balance[to] + amount <= I128_MAX) =>
                   Moved(r, from, to, amount)
            /\ from = to => (r.err = Ok /\ r.Balance = Balance)

\* A transfer has just succeeded, and a1 can send its whole positive balance
\* to a2, which has room for it.
C4_Witness ==
    /\ last = [op |-> "transfer", result |-> Ok]
    /\ Balance["a1"] > 0
    /\ Balance["a2"] + Balance["a1"] <= I128_MAX
    /\ Moved(call_transfer({"a1"}, "a1", "a2", Balance["a1"]), "a1", "a2", Balance["a1"])

(* -------------------------------- C5 ----------------------------------- *)

\* C5: a transfer(from, to, amt) with amt < 0 or amt > balance(from) fails,
\* and leaves every balance and every allowance record as it was.
C5_BadTransferChangesNothing ==
    \A auths \in Auths, from \in Accounts, to \in Recipients, amount \in Amounts :
        (amount < 0 \/ amount > Balance[from]) =>
            LET r == call_transfer(auths, from, to, amount) IN
            Failed(r) /\ Untouched(r)

\* A transfer of more than the sender has was refused while the recipient
\* holds tokens.
C5_Witness ==
    /\ last = [op |-> "transfer", result |-> PanicInsufficientBalance]
    /\ Balance["a2"] > 0
    /\ Balance["a1"] = 0

(* -------------------------------- C6 ----------------------------------- *)

\* C6 as claimed: a successful transfer_from(spender, from, to, amt) lowers
\* the stored allowance amount of (from, spender) by exactly amt and keeps
\* its stored expiration; transfer_from fails whenever amt exceeds the
\* effective allowance, whatever the stored amount.
C6_SpendLowersStoredByAmount ==
    \A auths \in Auths, p \in AllowancePairs, to \in Recipients, amount \in Amounts :
        LET r == call_transfer_from(auths, p[2], p[1], to, amount) IN
        /\ r.err = Ok =>
               /\ StoredAmount(r, p) = StoredAmount(Env, p) - amount
               /\ StoredExpiration(r, p) = StoredExpiration(Env, p)
        /\ amount > Effective(p) => Failed(r)

\* C6 as amended: a successful transfer_from stores the effective allowance
\* less amt and keeps the stored expiration; that is the stored amount less
\* amt while the record has not expired, and 0 once it has (the amount spent
\* is then 0).  transfer_from fails, changing nothing, whenever amt exceeds
\* the effective allowance.
C6_SpendStoresEffectiveLessAmount ==
    \A auths \in Auths, p \in AllowancePairs, to \in Recipients, amount \in Amounts :
        LET r == call_transfer_from(auths, p[2], p[1], to, amount) IN
        /\ r.err = Ok =>
               /\ StoredAmount(r, p) = Effective(p) - amount
               /\ StoredExpiration(r, p) = StoredExpiration(Env, p)
               /\ sequence <= StoredExpiration(Env, p) =>
                      StoredAmount(r, p) = StoredAmount(Env, p) - amount
               /\ sequence > StoredExpiration(Env, p) =>
                      (amount = 0 /\ StoredAmount(r, p) = 0)
        /\ amount > Effective(p) => (Failed(r) /\ Untouched(r))

\* A transfer_from has just succeeded and left an unexpired allowance that
\* the stored amount covers and a further transfer_from can spend.
C6_Witness ==
    /\ last = [op |-> "transfer_from", result |-> Ok]
    /\ Effective(<<"a1", "a2">>) > 0
    /\ Balance["a1"] > 0
    /\ call_transfer_from({"a2"}, "a2", "a1", "a2", 1).err = Ok

(* -------------------------------- C7 ----------------------------------- *)

\* What allowance(from, spender) returns in environment e.
AllowanceIn(e, p) == unwrap(run_allowance(e, p[1], p[2]).ret)

\* Right after a successful approve(o, s, amt, exp) the record is {amt, exp},
\* and as long as it stays so allowance(o, s) returns amt at every ledger
\* sequence <= exp and 0 at every later one.
C7_AfterApprove ==
    \A auths \in Auths, p \in AllowancePairs, amount \in Amounts, x \in Expirations :
        LET r == call_approve(auths, p[1], p[2], amount, x) IN
        r.err = Ok =>
            /\ StoredAmount(r, p) = amount /\ StoredExpiration(r, p) = x
            /\ \A n \in 0..MaxSeq :
                   AllowanceIn([r EXCEPT !.sequence = n], p) =
                       IF n <= x THEN amount ELSE 0

\* allowance is the effective allowance of the stored record, 0 for a pair
\* never approved, and reading it changes nothing.
C7_AllowanceReadsEffective ==
    \A p \in Pairs :
        /\ AllowanceIn(Env, p) = Effective(p)
        /\ Allowance[p] = None => AllowanceIn(Env, p) = 0
        /\ Untouched(call_allowance(p[1], p[2]))

\* The record of a pair is changed by nothing but a successful approve,
\* transfer_from or burn_from: not by the passage of the expiration, not by
\* a failed spend.
C7_RecordChangesOnlyBySpendOrApprove ==
    [][ \A p \in Pairs :
            Allowance'[p] # Allowance[p] =>
                /\ last'.op \in {"approve", "transfer_from", "burn_from"}
                /\ last'.result = Ok ]_vars

\* After the expiration no spend changes the stored amount.
C7_ExpiredAmountUntouched ==
    \A auths \in Auths, p \in AllowancePairs, to \in Recipients, amount \in Amounts :
        sequence > StoredExpiration(Env, p) =>
            /\ StoredAmount(call_transfer_from(auths, p[2], p[1], to, amount), p)
                   = StoredAmount(Env, p)
            /\ StoredAmount(call_burn_from(auths, p[2], p[1], amount), p)
                   = StoredAmount(Env, p)

\* After the expiration a spend of a positive amount fails and changes
\* nothing; a spend that succeeds (its amount is 0) stores the amount 0 and
\* keeps the expiration.
C7_ExpiredSpend ==
    \A auths \in Auths, p \in AllowancePairs, to \in Recipients, amount \in Amounts :
        sequence > StoredExpiration(Env, p) =>
            LET t == call_transfer_from(auths, p[2], p[1], to, amount)
                b == call_burn_from(auths, p[2], p[1], amount)
            IN  /\ amount # 0 => (Failed(t) /\ Untouched(t) /\ Failed(b) /\ Untouched(b))
                /\ t.err = Ok => (StoredAmount(t, p) = 0 /\
                                  StoredExpiration(t, p) = StoredExpiration(Env, p))
                /\ b.err = Ok => (StoredAmount(b, p) = 0 /\
                                  StoredExpiration(b, p) = StoredExpiration(Env, p))

\* C7 as claimed: after a successful approve(o, s, amt, exp), and until a
\* later approve or a spend by s, allowance(o, s) returns amt at every ledger
\* sequence <= exp and 0 at every sequence > exp; the stored record is not
\* changed by the passage of the expiration, and its amount is changed by no
\* spend attempted after the expiration; for a pair never approved allowance
\* returns 0.
C7_AllowanceUntilExpiry ==
    /\ [](C7_AfterApprove /\ C7_AllowanceReadsEffective /\ C7_ExpiredAmountUntouched)
    /\ C7_RecordChangesOnlyBySpendOrApprove

\* C7 as amended: the same, except that after the expiration the stored
\* amount is changed by no failed spend, while a transfer_from or burn_from
\* of amount 0 succeeds and sets the stored amount to 0.
C7_AllowanceUntilExpirySpendZero ==
    /\ [](C7_AfterApprove /\ C7_AllowanceReadsEffective /\ C7_ExpiredSpend)
    /\ C7_RecordChangesOnlyBySpendOrApprove

\* The ledger was closed past the expiration of an allowance whose stored
\* amount is still positive: allowance returns 0 and the record is intact.
C7_Witness ==
    /\ last = [op |-> "close_ledger", result |-> Ok]
    /\ StoredAmount(Env, <<"a1", "a2">>) > 0
    /\ sequence > StoredExpiration(Env, <<"a1", "a2">>)
    /\ AllowanceIn(Env, <<"a1", "a2">>) = 0

(* -------------------------------- C8 ----------------------------------- *)

\* mint fails with the authorization error, changing no balance, unless the
\* stored admin authorized the invocation.
C8_MintNeedsAdmin ==
    \A auths \in Auths, to \in Recipients, amount \in Amounts :
        LET r == call_mint(auths, to, amount) IN
        /\ Admin \notin auths => (r.err = HostAuthError /\ r.Balance = Balance)
        /\ r.err = Ok => Admin \in auths

Credited(r, to, amount) ==
    /\ r.Balance[to] = Balance[to] + amount
    /\ \A a \in Accounts \ {to} : r.Balance[a] = Balance[a]

\* C8 as claimed: mint succeeds only when authorized by the stored admin; a
\* mint authorized only by other accounts fails with an authorization error
\* and changes no balance; a mint with amt >= 0 authorized by the admin
\* raises balance(to) by exactly amt and changes no other balance.
C8_AdminMintCredits ==
    /\ C8_MintNeedsAdmin
    /\ \A auths \in Auths, to \in Recipients, amount \in Amounts :
           (Admin \in auths /\ amount >= 0) =>
               Credited(call_mint(auths, to, amount), to, amount)

\* C8 as amended: the same, the credit being claimed only when
\* balance(to) + amt does not exceed the largest amount.
C8_AdminMintCreditsInRange ==
    /\ C8_MintNeedsAdmin
    /\ \A auths \in Auths, to \in Recipients, amount \in Amounts :
           (Admin \in auths /\ amount >= 0 /\ Balance[to] + amount <= I128_MAX) =>
               LET r == call_mint(auths, to, amount) IN
               r.err = Ok /\ Credited(r, to, amount)

\* A mint authorized by someone else than the admin was refused.
C8_Witness ==
    /\ last = [op |-> "mint", result |-> HostAuthError]
    /\ Balance["a2"] > 0
    /\ Admin = "a1"

(* -------------------------------- C9 ----------------------------------- *)

\* In environment r, whose admin is new, mint and set_admin are refused
\* without change unless new authorized the invocation.
OnlyAdminIn(r, new) ==
    \A auths \in SUBSET Accounts :
        /\ \A to \in Recipients, amount \in Amounts :
               LET m == Commit(r, run_mint(r, auths, to, amount)) IN
               /\ new \notin auths =>
                      (m.err = HostAuthError /\ m.Balance = r.Balance /\
                       m.Allowance = r.Allowance /\ m.Admin = r.Admin /\
                       m.METADATA = r.METADATA)
               /\ (new \in auths /\ amount >= 0 /\ r.Balance[to] + amount <= I128_MAX) =>
                      m.err = Ok
        /\ \A n \in Admins :
               LET a == Commit(r, run_set_admin(r, auths, n)) IN
               /\ new \notin auths =>
                      (a.err = HostAuthError /\ a.Balance = r.Balance /\
                       a.Allowance = r.Allowance /\ a.Admin = r.Admin /\
                       a.METADATA = r.METADATA)
               /\ new \in auths => (a.err = Ok /\ a.Admin = n)

\* A successful set_admin(new) makes new the admin for the very next
\* invocation: the old admin's authorization no longer suffices.
C9_SetAdminTakesEffect ==
    \A auths \in Auths, new \in Admins :
        LET r == call_set_admin(auths, new) IN
        /\ Admin \notin auths => RefusedUntouched(r)
        /\ r.err = Ok =>
               /\ Admin \in auths
               /\ r.Admin = new
               /\ OnlyAdminIn(r, new)
               /\ new # Admin =>
                      \A to \in Recipients, amount \in Amounts, n \in Admins :
                          /\ run_mint(r, {Admin}, to, amount).err = HostAuthError
                          /\ run_set_admin(r, {Admin}, n).err = HostAuthError

\* C9: after a successful set_admin(new) with new different from the old
\* admin, from the very next invocation on every mint and set_admin
\* authorized only by the old admin fails and changes nothing, and mint and
\* set_admin succeed only when authorized by new, until a further successful
\* set_admin, which only new can perform.
C9_OnlyNewAdmin ==
    /\ [](C9_SetAdminTakesEffect /\ OnlyAdminIn(Env, Admin))
    /\ [][ Admin' # Admin => (last'.op = "set_admin" /\ last'.result = Ok) ]_vars

\* After the admin was changed from a1 to a3, a mint was refused: one that
\* the old admin a1 authorized is refused there.
C9_Witness ==
    /\ last = [op |-> "mint", result |-> HostAuthError]
    /\ Admin = "a3"
    /\ call_mint({"a1"}, "a1", 0).err = HostAuthError

(* -------------------------------- C10 ---------------------------------- *)

\* C10: construction invoked again fails with AlreadyInitializedError for
\* every choice of arguments, also after set_admin has changed the admin,
\* and leaves the stored admin and metadata unchanged.
C10_ConstructedOnce ==
    \A a \in Admins, m \in Metas :
        LET r == call_constructor(a, m) IN
        /\ r.err = "AlreadyInitializedError"
        /\ r.Admin = Admin
        /\ r.METADATA = METADATA

(* -------------------------------- C11 ---------------------------------- *)

\* Every step: an invocation that fails leaves the storage it found.
C11_FailedLeavesStorage == [][ last'.result # Ok => UNCHANGED storage ]_vars

\* The record spend_allowance has written for pair p when the balance check
\* of the same invocation runs.
Decremented(p, amount) ==
    Some([amount |-> Effective(p) - amount,
          expiration_ledger |-> StoredExpiration(Env, p)])

\* A spend by the spender within the effective allowance and above the
\* balance of the owner.
CoveredNotFunded(auths, p, amount) ==
    /\ p[2] \in auths
    /\ 0 <= amount
    /\ amount <= Effective(p)
    /\ amount > Balance[p[1]]

\* The spend whose allowance covers it and whose balance does not.
C11_SpendRolledBack ==
    /\ \A auths \in Auths, p \in AllowancePairs, to \in Recipients, amount \in Amounts :
           CoveredNotFunded(auths, p, amount) =>
               LET w == run_transfer_from(Env, auths, p[2], p[1], to, amount)
                   r == call_transfer_from(auths, p[2], p[1], to, amount)
               IN  /\ w.err = PanicInsufficientBalance
                   /\ w.Allowance[p] = Decremented(p, amount)
                   /\ Failed(r)
                   /\ r.Allowance = Allowance
                   /\ r.Balance = Balance
    /\ \A auths \in Auths, p \in AllowancePairs, amount \in Amounts :
           CoveredNotFunded(auths, p, amount) =>
               LET w == run_burn_from(Env, auths, p[2], p[1], amount)
                   r == call_burn_from(auths, p[2], p[1], amount)
               IN  /\ w.err = PanicInsufficientBalance
                   /\ w.Allowance[p] = Decremented(p, amount)
                   /\ Failed(r)
                   /\ r.Allowance = Allowance
                   /\ r.Balance = Balance

\* C11: no failed invocation leaves a partial write: in particular a
\* transfer_from or burn_from whose amount is within the effective allowance
\* and above balance(from) fails on the balance check, which runs after the
\* decremented allowance record was written, and leaves the allowance record
\* of (from, spender) and every balance as before the invocation.
C11_NoPartialWrite == []C11_SpendRolledBack /\ C11_FailedLeavesStorage

\* A transfer_from within a positive allowance has just failed for want of
\* balance: the invocation had written a smaller allowance, and the stored
\* record is the one it found.
C11_Witness ==
    /\ last = [op |-> "transfer_from", result |-> PanicInsufficientBalance]
    /\ Effective(<<"a1", "a2">>) > 0
    /\ Balance["a1"] < Effective(<<"a1", "a2">>)
    /\ run_transfer_from(Env, {"a2"}, "a2", "a1", "a2", Effective(<<"a1", "a2">>)).Allowance
           # Allowance
    /\ call_transfer_from({"a2"}, "a2", "a1", "a2", Effective(<<"a1", "a2">>)).Allowance
           = Allowance

(* -------------------------------- C12 ---------------------------------- *)

\* The invocation was refused with OverflowError and changed nothing.
OverflowRefused(r) == r.err = "OverflowError" /\ Untouched(r)

\* C12: a credit, by mint, transfer or transfer_from, whose result
\* balance(addr) + amount exceeds the largest amount fails with OverflowError
\* and changes no state; so no mint and no transfer makes a stored balance
\* wrap around to a smaller or a negative value.
C12_CreditOverflowRefused ==
    /\ \A auths \in Auths, to \in Recipients, amount \in Amounts :
           LET r == call_mint(auths, to, amount) IN
           /\ (Admin \in auths /\ amount >= 0 /\ Balance[to] + amount > I128_MAX) =>
                  OverflowRefused(r)
           /\ r.err = Ok => (r.Balance[to] >= Balance[to] /\ r.Balance[to] >= 0)
    /\ \A auths \in Auths, from \in Accounts, to \in Recipients, amount \in Amounts :
           LET r == call_transfer(auths, from, to, amount) IN
           /\ (from \in auths /\ from # to /\ 0 <= amount /\ amount <= Balance[from]
                  /\ Balance[to] + amount > I128_MAX) => OverflowRefused(r)
           /\ (r.err = Ok /\ from # to) =>
                  (r.Balance[to] >= Balance[to] /\ r.Balance[to] >= 0)
    /\ \A auths \in Auths, p \in AllowancePairs, to \in Recipients, amount \in Amounts :
           LET r == call_transfer_from(auths, p[2], p[1], to, amount) IN
           /\ (p[2] \in auths /\ p[1] # to /\ 0 <= amount /\ amount <= Effective(p)
                  /\ amount <= Balance[p[1]] /\ Balance[to] + amount > I128_MAX) =>
                  OverflowRefused(r)
           /\ (r.err = Ok /\ p[1] # to) =>
                  (r.Balance[to] >= Balance[to] /\ r.Balance[to] >= 0)

(* -------------------------------- C13 ---------------------------------- *)

\* The run w of an invocation, and what the host made of it, r: refused with
\* NegativeAmountError, without a write before the refusal, nothing changed.
NegativeRefused(w, r) ==
    /\ r.err = "NegativeAmountError"
    /\ w.Balance = Balance /\ w.Allowance = Allowance
    /\ Untouched(r)

\* The amount check let the invocation through.
AmountAccepted(r) == r.err \notin {"NegativeAmountError", PanicNegativeAmount}

\* C13: approve, transfer, transfer_from, burn, burn_from and mint, invoked
\* by their authorized principal with amount < 0, fail with
\* NegativeAmountError before a balance or an allowance is written, and
\* leave all state unchanged; the amount 0 is accepted.
C13_NegativeAmountRefused ==
    /\ \A auths \in Auths, p \in AllowancePairs, amount \in Amounts, x \in Expirations :
           p[1] \in auths =>
               LET w == run_approve(Env, auths, p[1], p[2], amount, x)
                   r == call_approve(auths, p[1], p[2], amount, x)
               IN  /\ amount < 0 => NegativeRefused(w, r)
                   /\ amount = 0 => r.err = Ok
    /\ \A auths \in Auths, from \in Accounts, to \in Recipients, amount \in Amounts :
           from \in auths =>
               LET w == run_transfer(Env, auths, from, to, amount)
                   r == call_transfer(auths, from, to, amount)
               IN  /\ amount < 0 => NegativeRefused(w, r)
                   /\ amount = 0 => AmountAccepted(r)
    /\ \A auths \in Auths, p \in AllowancePairs, to \in Recipients, amount \in Amounts :
           p[2] \in auths =>
               LET w == run_transfer_from(Env, auths, p[2], p[1], to, amount)
                   r == call_transfer_from(auths, p[2], p[1], to, amount)
               IN  /\ amount < 0 => NegativeRefused(w, r)
                   /\ amount = 0 => AmountAccepted(r)
    /\ \A auths \in Auths, from \in Accounts, amount \in Amounts :
           from \in auths =>
               LET w == run_burn(Env, auths, from, amount)
                   r == call_burn(auths, from, amount)
               IN  /\ amount < 0 => NegativeRefused(w, r)
                   /\ amount = 0 => AmountAccepted(r)
    /\ \A auths \in Auths, p \in AllowancePairs, amount \in Amounts :
           p[2] \in auths =>
               LET w == run_burn_from(Env, auths, p[2], p[1], amount)
                   r == call_burn_from(auths, p[2], p[1], amount)
               IN  /\ amount < 0 => NegativeRefused(w, r)
                   /\ amount = 0 => AmountAccepted(r)
    /\ \A auths \in Auths, to \in Recipients, amount \in Amounts :
           Admin \in auths =>
               LET w == run_mint(Env, auths, to, amount)
                   r == call_mint(auths, to, amount)
               IN  /\ amount < 0 => NegativeRefused(w, r)
                   /\ amount = 0 => r.err = Ok

(* -------------------------------- C14 ---------------------------------- *)

\* The read r, made in the current state, succeeded without any
\* authorization and left the storage it found; again is the same read made
\* right after it.
PureRead(r, again) ==
    /\ r.err = Ok
    /\ Untouched(r)
    /\ again.err = Ok
    /\ again.ret = r.ret

C14_EachRead ==
    /\ \A p \in Pairs :
           LET r == call_allowance(p[1], p[2]) IN
           PureRead(r, Commit(r, run_allowance(r, p[1], p[2])))
    /\ \A id \in Accounts :
           LET r == call_balance(id) IN PureRead(r, Commit(r, run_balance(r, id)))
    /\ PureRead(call_decimals, Commit(call_decimals, run_decimals(call_decimals)))
    /\ PureRead(call_name, Commit(call_name, run_name(call_name)))
    /\ PureRead(call_symbol, Commit(call_symbol, run_symbol(call_symbol)))
    /\ PureRead(call_admin, Commit(call_admin, run_admin(call_admin)))

\* C14: allowance, balance, decimals, name, symbol and admin need no
\* authorization and change no stored state: after any of them every
\* balance, every stored allowance record (an expired one too), the admin
\* and the metadata are as before, and the same read made twice at the same
\* ledger sequence returns the same value.
C14_ReadsChangeNothing ==
    /\ []C14_EachRead
    /\ [][ last'.op \in {"allowance", "balance", "decimals", "name", "symbol", "admin"}
               => (last'.result = Ok /\ UNCHANGED storage) ]_vars

\* allowance was just read on a record that has expired with a positive
\* amount: it returns 0 and the stored amount is still there.
C14_Witness ==
    /\ last = [op |-> "allowance", result |-> Ok]
    /\ sequence > StoredExpiration(Env, <<"a1", "a2">>)
    /\ StoredAmount(Env, <<"a1", "a2">>) > 0
    /\ call_allowance("a1", "a2").ret = Some(0)

(* -------------------------------- C15 ---------------------------------- *)

\* approve(p[1], p[2], amount, x), authorized by auths, run in environment e0
\* left r: the record of p is exactly {amount, x}, and no balance, no other
\* pair's record, neither the admin nor the metadata has changed.
Replaced(e0, r, p, amount, x) ==
    /\ r.err = Ok
    /\ r.Allowance[p] = Some([amount |-> amount, expiration_ledger |-> x])
    /\ \A q \in Pairs \ {p} : r.Allowance[q] = e0.Allowance[q]
    /\ r.Balance = e0.Balance
    /\ r.Admin = e0.Admin
    /\ r.METADATA = e0.METADATA

\* The pairs closest to p: the reversed pair, the same owner with another
\* spender, another owner with the same spender.
Neighbours(p) == {<<p[2], p[1]>>, <<p[1], "a3">>, <<"a3", p[2]>>}

\* C15: a successful approve(o, s, amt, exp) replaces the stored record of
\* (o, s) by exactly {amt, exp}, whatever the record was (the amount is not
\* added to the old one, amt = 0 revokes), changes no balance and no other
\* pair's allowance, and is accepted for every exp, one below the current
\* ledger sequence included, after which allowance(o, s) is 0 at once.
C15_ApproveReplaces ==
    \A auths \in Auths, p \in AllowancePairs, amount \in Amounts, x \in Expirations :
        LET r == call_approve(auths, p[1], p[2], amount, x) IN
        /\ r.err = Ok => Replaced(Env, r, p, amount, x)
        /\ (p[1] \in auths /\ amount >= 0) =>
               /\ Replaced(Env, r, p, amount, x)
               /\ AllowanceIn(r, p) = IF x < sequence THEN 0 ELSE amount
               /\ amount = 0 => \A n \in 0..MaxSeq :
                                    AllowanceIn([r EXCEPT !.sequence = n], p) = 0
               \* a record of another pair, approved right after, leaves this one
               /\ \A q \in Neighbours(p) :
                      LET r2 == Commit(r, run_approve(r, {q[1]}, q[1], q[2], 1, MaxSeq))
                      IN  /\ Replaced(r, r2, q, 1, MaxSeq)
                          /\ r2.Allowance[p] = r.Allowance[p]

\* An approve with an expiration below the current ledger sequence has just
\* succeeded: the positive amount is stored and the allowance is 0; a
\* further approve would replace it.
C15_Witness ==
    /\ last = [op |-> "approve", result |-> Ok]
    /\ sequence > StoredExpiration(Env, <<"a1", "a2">>)
    /\ StoredAmount(Env, <<"a1", "a2">>) > 0
    /\ AllowanceIn(Env, <<"a1", "a2">>) = 0
    /\ call_approve({"a1"}, "a1", "a2", 0, MaxSeq).Allowance[<<"a1", "a2">>]
           = Some([amount |-> 0, expiration_ledger |-> MaxSeq])

(* -------------------------------- C16 ---------------------------------- *)

\* The accessors return the stored metadata and the stored admin.
C16_Accessors ==
    /\ call_decimals.ret = Some(unwrap(METADATA).decimal)
    /\ call_name.ret = Some(unwrap(METADATA).name)
    /\ call_symbol.ret = Some(unwrap(METADATA).symbol)
    /\ call_admin.ret = Some(Admin)

\* No invocation other than set_admin, and no failed one, changes the admin.
C16_AdminKept ==
    /\ \A a \in Admins, m \in Metas : call_constructor(a, m).Admin = Admin
    /\ \A auths \in Auths, p \in AllowancePairs, amount \in Amounts, x \in Expirations :
           call_approve(auths, p[1], p[2], amount, x).Admin = Admin
    /\ \A auths \in Auths, from \in Accounts, to \in Recipients, amount \in Amounts :
           call_transfer(auths, from, to, amount).Admin = Admin
    /\ \A auths \in Auths, p \in AllowancePairs, to \in Recipients, amount \in Amounts :
           call_transfer_from(auths, p[2], p[1], to, amount).Admin = Admin
    /\ \A auths \in Auths, from \in Accounts, amount \in Amounts :
           call_burn(auths, from, amount).Admin = Admin
    /\ \A auths \in Auths, p \in AllowancePairs, amount \in Amounts :
           call_burn_from(auths, p[2], p[1], amount).Admin = Admin
    /\ \A auths \in Auths, to \in Recipients, amount \in Amounts :
           call_mint(auths, to, amount).Admin = Admin
    /\ \A auths \in Auths, new_admin \in Admins :
           LET r == call_set_admin(auths, new_admin) IN Failed(r) => r.Admin = Admin

\* C16: after construction the metadata the accessors return is the one
\* given at construction, after any sequence of operations, and the stored
\* admin is changed by no operation but a successful set_admin: approve,
\* transfer, transfer_from, burn, burn_from, mint and every failed call
\* leave admin() unchanged.
C16_MetadataAndAdminKept ==
    /\ [](C16_Accessors /\ C16_AdminKept)
    /\ [][ /\ METADATA' = METADATA
           /\ Admin' # Admin => (last'.op = "set_admin" /\ last'.result = Ok) ]_vars

\* After set_admin had changed the admin, a second construction was
\* attempted and refused: admin and metadata are read as they were.
C16_Witness ==
    /\ last = [op |-> "__constructor", result |-> PanicAlreadyInitialized]
    /\ call_admin.ret = Some("a3")
    /\ call_decimals.ret = Some(7)
    /\ call_name.ret = Some("X")
    /\ call_symbol.ret = Some("X")

(* -------------------------------- C17 ---------------------------------- *)

\* The run w of a mutating invocation, before the host ends it.  If it
\* returned, it has published the one event, as its last step, after its
\* writes.  If it aborted, it had published nothing and the host lets no
\* event out.
OneEvent(w, event) ==
    /\ w.err = Ok =>
           /\ w.events = <<event>>
           /\ Commit(Env, w).events = <<event>>
           /\ w.trace[Len(w.trace)] = "publish"
           /\ \A i \in 1..(Len(w.trace) - 1) : w.trace[i] = "set"
           /\ Len(w.trace) > 1
    /\ Failed(w) => (w.events = <<>> /\ Commit(Env, w).events = <<>>)

\* The run w was refused for want of authorization before it had written or
\* published anything.
RefusedFirst(w) ==
    /\ w.err = HostAuthError
    /\ w.trace = <<>>
    /\ w.events = <<>>
    /\ Untouched(w)

\* The invocations authorized by their principal.
C17_Authorized ==
    /\ \A p \in AllowancePairs, amount \in Amounts, x \in Expirations :
           OneEvent(run_approve(Env, {p[1]}, p[1], p[2], amount, x),
                    <<"approve", p[1], p[2], amount, x>>)
    /\ \A from \in Accounts, to \in Recipients, amount \in Amounts :
           OneEvent(run_transfer(Env, {from}, from, to, amount),
                    <<"transfer", from, to, amount>>)
    /\ \A p \in AllowancePairs, to \in Recipients, amount \in Amounts :
           OneEvent(run_transfer_from(Env, {p[2]}, p[2], p[1], to, amount),
                    <<"transfer", p[1], to, amount>>)
    /\ \A from \in Accounts, amount \in Amounts :
           OneEvent(run_burn(Env, {from}, from, amount), <<"burn", from, amount>>)
    /\ \A p \in AllowancePairs, amount \in Amounts :
           OneEvent(run_burn_from(Env, {p[2]}, p[2], p[1], amount),
                    <<"burn", p[1], amount>>)
    /\ \A to \in Recipients, amount \in Amounts :
           OneEvent(run_mint(Env, {Admin}, to, amount), <<"mint", Admin, to, amount>>)
    /\ \A new_admin \in Admins :
           OneEvent(run_set_admin(Env, {Admin}, new_admin),
                    <<"set_admin", Admin, new_admin>>)

\* The invocations not authorized by their principal, of an amount that the
\* principal could have moved.
C17_NotAuthorized ==
    \A auths \in Auths, amount \in {0, I128_MAX} :
        /\ \A p \in AllowancePairs :
               /\ p[1] \notin auths =>
                      RefusedFirst(run_approve(Env, auths, p[1], p[2], amount, MaxSeq))
               /\ p[2] \notin auths =>
                      /\ RefusedFirst(run_transfer_from(Env, auths, p[2], p[1], p[2],
                                                        amount))
                      /\ RefusedFirst(run_burn_from(Env, auths, p[2], p[1], amount))
        /\ \A from \in Accounts \ auths :
               /\ RefusedFirst(run_transfer(Env, auths, from, "a2", amount))
               /\ RefusedFirst(run_burn(Env, auths, from, amount))
        /\ Admin \notin auths =>
               /\ RefusedFirst(run_mint(Env, auths, "a2", amount))
               /\ \A new_admin \in Admins :
                      RefusedFirst(run_set_admin(Env, auths, new_admin))

C17_EachCall == C17_Authorized /\ C17_NotAuthorized

\* C17: every successful mutating operation publishes exactly one event,
\* after its storage writes, with the stated payload: approve(owner, spender,
\* amount, expiration), transfer(from, to, amount) for transfer and
\* transfer_from (without the spender), burn(from, amount) for burn and
\* burn_from, mint(admin, to, amount) naming the admin that authorized it,
\* set_admin(old, new); a failed operation publishes no event; and in every
\* mutating operation the authorization is checked before any storage write.
C17_OneEventAfterWrites == []C17_EachCall

\* A transfer_from has just succeeded; one more, of amount 0, publishes
\* transfer(a1, a2, 0), which does not name the spender, after its writes.
C17_Witness ==
    /\ last = [op |-> "transfer_from", result |-> Ok]
    /\ call_transfer_from({"a2"}, "a2", "a1", "a2", 0).events
           = << <<"transfer", "a1", "a2", 0>> >>
    /\ call_transfer_from({"a2"}, "a2", "a1", "a2", 0).trace
           = <<"set", "set", "set", "publish">>

(* -------------------------------- C18 ---------------------------------- *)

\* C18: an allowance is never overspent: for every pair (o, s), between one
\* approve(o, s, amt, exp) and the next approve on the pair, what s has
\* taken from the balance of o by successful transfer_from and burn_from, in
\* any interleaving with the other operations, never exceeds amt, and none
\* of it is taken at a ledger sequence greater than exp.
C18_NeverOverspent ==
    /\ [](\A p \in AllowancePairs : 0 <= spent[p] /\ spent[p] <= granted[p])
    /\ [][ \A p \in AllowancePairs :
               /\ spent'[p] > spent[p] => sequence <= deadline[p]
               /\ spent'[p] < spent[p] =>
                      (last'.op = "approve" /\ last'.result = Ok /\ spent'[p] = 0) ]_vars

\* The spender has just taken the whole of a positive allowance, before its
\* expiration: nothing is left to spend, a further transfer_from of 1 from
\* the owner, who has the balance for it, is refused.
C18_Witness ==
    /\ audit
    /\ last.op \in {"transfer_from", "burn_from"} /\ last.result = Ok
    /\ granted[<<"a1", "a2">>] > 0
    /\ spent[<<"a1", "a2">>] = granted[<<"a1", "a2">>]
    /\ Balance["a1"] > 0
    /\ sequence <= deadline[<<"a1", "a2">>]
    /\ call_transfer_from({"a2"}, "a2", "a1", "a2", 1).err = PanicInsufficientAllowance

(* -------------------------------- C19 ---------------------------------- *)

\* The record of pair p in the allowances A has expired at ledger sequence n.
ExpiredRecord(A, n, p) == A[p] # None /\ unwrap(A[p]).expiration_ledger < n

\* The environment the next invocation finds after one that left r.
After(r) == [r EXCEPT !.err = Ok, !.ret = None]

\* While the record of a pair is expired, allowance reads 0, and whatever
\* the spender or a third party invokes leaves it expired and reading 0: an
\* approve they authorize is refused, a spend changes neither the
\* expiration nor the 0.
C19_ExpiredReadsZero ==
    \A p \in AllowancePairs :
        ExpiredRecord(Allowance, sequence, p) =>
            /\ AllowanceIn(Env, p) = 0
            /\ \A auths \in Auths, amount \in Amounts :
                   /\ \A x \in Expirations :
                          p[1] \notin auths =>
                              RefusedUntouched(call_approve(auths, p[1], p[2], amount, x))
                   /\ \A to \in Recipients :
                          LET r == call_transfer_from(auths, p[2], p[1], to, amount) IN
                          ExpiredRecord(r.Allowance, sequence, p) /\ AllowanceIn(After(r), p) = 0
                   /\ LET r == call_burn_from(auths, p[2], p[1], amount) IN
                      ExpiredRecord(r.Allowance, sequence, p) /\ AllowanceIn(After(r), p) = 0

\* C19: the ledger sequence never decreases, so once allowance(o, s) has
\* become 0 by expiry (the sequence is above the stored expiration) it is 0
\* in every later state, whatever operations run, until o makes a new
\* approve on (o, s): no operation of the spender or of a third party
\* restores or extends an expired allowance.
C19_ExpiredStaysExpired ==
    /\ []C19_ExpiredReadsZero
    /\ [][ /\ sequence' >= sequence
           /\ \A p \in AllowancePairs :
                  (ExpiredRecord(Allowance, sequence, p)
                       /\ ~(last'.op = "approve" /\ last'.result = Ok)) =>
                      ExpiredRecord(Allowance', sequence', p) ]_vars

\* After the allowance had expired with a positive amount stored, the
\* spender tried to use it and was refused: it still reads 0.
C19_Witness ==
    /\ last = [op |-> "transfer_from", result |-> PanicInsufficientAllowance]
    /\ ExpiredRecord(Allowance, sequence, <<"a1", "a2">>)
    /\ StoredAmount(Env, <<"a1", "a2">>) > 0
    /\ AllowanceIn(Env, <<"a1", "a2">>) = 0

(* -------------------------------- C20 ---------------------------------- *)

\* C20: a transfer whose source and destination are the same account,
\* transfer(a, a, amt) with 0 <= amt <= balance(a), and likewise
\* transfer_from(s, a, a, amt) within the allowance, succeeds and leaves
\* balance(a) and every other balance unchanged: the credit reads the
\* balance the debit has written, no value is created or destroyed.
C20_SelfTransferKeepsBalances ==
    /\ \A auths \in Auths, a \in Accounts, amount \in Amounts :
           (a \in auths /\ 0 <= amount /\ amount <= Balance[a]) =>
               LET w == run_transfer(Env, auths, a, a, amount)
                   r == call_transfer(auths, a, a, amount)
               IN  /\ r.err = Ok
                   /\ r.Balance = Balance
                   /\ Supply(r) = TotalSupply
                   /\ w.trace = <<"set", "set", "publish">>
    /\ \A auths \in Auths, p \in AllowancePairs, amount \in Amounts :
           (p[2] \in auths /\ 0 <= amount /\ amount <= Effective(p)
               /\ amount <= Balance[p[1]]) =>
               LET r == call_transfer_from(auths, p[2], p[1], p[1], amount)
               IN  /\ r.err = Ok
                   /\ r.Balance = Balance
                   /\ Supply(r) = TotalSupply
                   /\ StoredAmount(r, p) = Effective(p) - amount

\* A transfer has just succeeded and a1 holds tokens: sending all of them
\* from a1 to a1 writes the balance twice and leaves every balance as it is.
C20_Witness ==
    /\ last = [op |-> "transfer", result |-> Ok]
    /\ Balance["a1"] > 0
    /\ run_transfer(Env, {"a1"}, "a1", "a1", Balance["a1"]).trace
           = <<"set", "set", "publish">>
    /\ call_transfer({"a1"}, "a1", "a1", Balance["a1"]).Balance = Balance

=============================================================================
